---- MODULE Spec2Model ----
(***************************************************************************)
(* Model of go-autobuilder (go/extractor/cli/go-autobuilder).              *)
(*                                                                         *)
(* One process, strictly sequential.  `pc` is the position of main() in    *)
(* installDependenciesAndBuild (build mode) or identifyEnvironment         *)
(* (requirement mode).  Files, environment variables and the results of    *)
(* external commands are read at the point where the code reads them.      *)
(*                                                                         *)
(* Encodings                                                               *)
(*   version text  "1.20.1" is the sequence <<1, 20, 1>>, "1.20" is        *)
(*                 <<1, 20>>, "" is <<>>; a text that is no semantic       *)
(*                 version (such as "1.21rc1") is Unparsable.  The semver  *)
(*                 operators take the text that follows the "v" which      *)
(*                 every call site prepends.                               *)
(*   paths         sequences of path components.                           *)
(*   log.Fatalf    os.Exit(1): the process ends at once and deferred       *)
(*                 calls do not run.                                       *)
(***************************************************************************)
EXTENDS Integers, Sequences, FiniteSets

\* ------------------------------------------------------------------ bounds
\* Largest patch number of an installed toolchain version.
MaxPatch == 1
\* Number of names of NamePool that may occur in the source root at start.
MaxNames == 2

\* ------------------------------------------------------------ input values
NamePool == <<"main.go", "root", "vendor", "README">>
Names == {NamePool[i] : i \in 1..MaxNames}
\* os.MkdirTemp(srcdir, "scratch") picks a name that does not exist yet.
ScratchNames == {"scratch1"}

MajorMinors == {<<1, 10>>, <<1, 11>>, <<1, 14>>, <<1, 20>>, <<1, 21>>, <<2, 0>>}
Unparsable == <<-1>>
\* What the go directive of go.mod can hold: ([0-9]+\.[0-9]+).
DirectiveTexts == MajorMinors
\* What follows "go" in the last line of `go version`.
\* The major.minor of the toolchains tried.
ToolchainMajorMinors == {<<1, 10>>, <<1, 14>>, <<1, 20>>, <<1, 21>>}
ToolchainTexts ==
    ToolchainMajorMinors \cup {mm \o <<p>> : mm \in ToolchainMajorMinors, p \in 0..MaxPatch}
        \cup {Unparsable}
\* The third field of the banner: "go" followed by a text, or something else.
Banners == [goPrefix : {TRUE}, text : ToolchainTexts] \cup {[goPrefix |-> FALSE, text |-> Unparsable]}
NoBanner == [goPrefix |-> FALSE, text |-> <<>>]
\* GO111MODULE is not in the environment.
NotSet == "not set"
\* GO111MODULE in the environment the autobuilder is started in.
Go111ModuleAtStart == {NotSet, "on"}

\* ------------------------------------------------- golang.org/x/mod/semver
IsValid(t) == Len(t) \in 1..3 /\ \A i \in 1..Len(t) : t[i] >= 0

Canon(t) == <<t[1], IF Len(t) >= 2 THEN t[2] ELSE 0, IF Len(t) >= 3 THEN t[3] ELSE 0>>

CompareCanon(a, b) ==
    IF a[1] # b[1] THEN (IF a[1] < b[1] THEN -1 ELSE 1)
    ELSE IF a[2] # b[2] THEN (IF a[2] < b[2] THEN -1 ELSE 1)
    ELSE IF a[3] # b[3] THEN (IF a[3] < b[3] THEN -1 ELSE 1)
    ELSE 0

\* semver.Compare: an invalid version is less than a valid one and equal to
\* another invalid one.
semverCompare(v, w) ==
    IF ~IsValid(v) /\ ~IsValid(w) THEN 0
    ELSE IF ~IsValid(v) THEN -1
    ELSE IF ~IsValid(w) THEN 1
    ELSE CompareCanon(Canon(v), Canon(w))

\* semver.MajorMinor: "" for an invalid version.
semverMajorMinor(v) == IF ~IsValid(v) THEN <<>> ELSE <<Canon(v)[1], Canon(v)[2]>>

\* ------------------------------------------------------- requirement mode
minGoVersion == <<1, 11>>
maxGoVersion == <<1, 20>>

outsideSupportedRange_FullVersion(version) ==
    semverCompare(version, minGoVersion) < 0 \/ semverCompare(version, maxGoVersion) > 0

outsideSupportedRange(version) ==
    LET short == semverMajorMinor(version)
    IN  semverCompare(short, minGoVersion) < 0 \/ semverCompare(short, maxGoVersion) > 0

\* The result of the three checks: the message (a tag for its text, "" when
\* the check does not apply), the version to install and the diagnostics
\* emitted, in order.
NoResult == [msg |-> "", version |-> <<>>, diags |-> <<>>]

checkForUnsupportedVersions_EnvIgnored(v) ==
    IF v.goModVersionFound /\ outsideSupportedRange(v.goModVersion)
    THEN [msg |-> "unsupported-go-mod", version |-> <<>>,
          diags |-> <<"EmitUnsupportedVersionGoMod">>]
    ELSE NoResult

checkForUnsupportedVersions(v) ==
    IF v.goModVersionFound /\ outsideSupportedRange(v.goModVersion)
    THEN [msg |-> "unsupported-go-mod", version |-> <<>>,
          diags |-> <<"EmitUnsupportedVersionGoMod">>]
    ELSE IF v.goEnvVersionFound /\ outsideSupportedRange(v.goEnvVersion)
    THEN [msg |-> "unsupported-environment", version |-> <<>>,
          diags |-> <<"EmitUnsupportedVersionEnvironment">>]
    ELSE NoResult

checkForVersionsNotFound_EnvRequested(v) ==
    LET r1 == IF ~v.goEnvVersionFound /\ ~v.goModVersionFound
              THEN [msg |-> "no-go-mod-and-no-go-env", version |-> maxGoVersion,
                    diags |-> <<"EmitNoGoModAndNoGoEnv">>]
              ELSE NoResult
        r2 == IF ~v.goEnvVersionFound /\ v.goModVersionFound
              THEN [msg |-> "no-go-env", version |-> v.goModVersion,
                    diags |-> r1.diags \o <<"EmitNoGoEnv">>]
              ELSE r1
        r3 == IF v.goEnvVersionFound /\ ~v.goModVersionFound
              THEN [msg |-> "no-go-mod", version |-> v.goEnvVersion,
                    diags |-> r2.diags \o <<"EmitNoGoMod">>]
              ELSE r2
    IN  r3

\* Three consecutive ifs, each overwriting msg and version.
checkForVersionsNotFound(v) ==
    LET r1 == IF ~v.goEnvVersionFound /\ ~v.goModVersionFound
              THEN [msg |-> "no-go-mod-and-no-go-env", version |-> maxGoVersion,
                    diags |-> <<"EmitNoGoModAndNoGoEnv">>]
              ELSE NoResult
        r2 == IF ~v.goEnvVersionFound /\ v.goModVersionFound
              THEN [msg |-> "no-go-env", version |-> v.goModVersion,
                    diags |-> r1.diags \o <<"EmitNoGoEnv">>]
              ELSE r1
        r3 == IF v.goEnvVersionFound /\ ~v.goModVersionFound
              THEN [msg |-> "no-go-mod", version |-> <<>>,
                    diags |-> r2.diags \o <<"EmitNoGoMod">>]
              ELSE r2
    IN  r3

compareVersions_NotLower(v) ==
    IF semverCompare(v.goModVersion, v.goEnvVersion) >= 0
    THEN [msg |-> "go-mod-higher-than-environment", version |-> v.goModVersion,
          diags |-> <<"EmitVersionGoModHigherVersionEnvironment">>]
    ELSE [msg |-> "go-mod-not-higher-than-environment", version |-> <<>>,
          diags |-> <<"EmitVersionGoModNotHigherVersionEnvironment">>]

compareVersions(v) ==
    IF semverCompare(v.goModVersion, v.goEnvVersion) > 0
    THEN [msg |-> "go-mod-higher-than-environment", version |-> v.goModVersion,
          diags |-> <<"EmitVersionGoModHigherVersionEnvironment">>]
    ELSE [msg |-> "go-mod-not-higher-than-environment", version |-> <<>>,
          diags |-> <<"EmitVersionGoModNotHigherVersionEnvironment">>]

getVersionToInstall_NotFoundFirst(v) ==
    LET r1 == checkForVersionsNotFound(v)
        r2 == checkForUnsupportedVersions(v)
    IN  IF r1.msg # "" THEN r1
        ELSE IF r2.msg # "" THEN r2
        ELSE compareVersions(v)

getVersionToInstall(v) ==
    LET r1 == checkForUnsupportedVersions(v)
        r2 == checkForVersionsNotFound(v)
    IN  IF r1.msg # "" THEN r1
        ELSE IF r2.msg # "" THEN r2
        ELSE compareVersions(v)

NoVersionInfo ==
    [goModVersion |-> <<>>, goModVersionFound |-> FALSE,
     goEnvVersion |-> <<>>, goEnvVersionFound |-> FALSE]

\* ------------------------------------------------------------- build mode
\* DependencyInstallerMode
GoGetNoModules == "GoGetNoModules"
GoGetWithModules == "GoGetWithModules"
Dep == "Dep"
Glide == "Glide"

\* ModMode
ModUnset == "ModUnset"
ModReadonly == "ModReadonly"
ModMod == "ModMod"
ModVendor == "ModVendor"

\* getEnvGoSemVer: "v" + goVersion[2:], fatal unless goVersion starts with "go".
getEnvGoSemVer(banner) ==
    [fatal |-> ~banner.goPrefix, semver |-> banner.text]

argsForGoVersion_ModAlways(m, version) ==
    CASE m = ModUnset -> [fatal |-> FALSE, args |-> <<>>]
      [] m = ModReadonly -> [fatal |-> FALSE, args |-> <<"-mod=readonly">>]
      [] m = ModMod ->
            IF ~IsValid(version) THEN [fatal |-> TRUE, args |-> <<>>]
            ELSE [fatal |-> FALSE, args |-> <<"-mod=mod">>]
      [] m = ModVendor -> [fatal |-> FALSE, args |-> <<"-mod=vendor">>]

argsForGoVersion_NoVendorFlag(m, version) ==
    CASE m = ModUnset -> [fatal |-> FALSE, args |-> <<>>]
      [] m = ModReadonly -> [fatal |-> FALSE, args |-> <<"-mod=readonly">>]
      [] m = ModMod ->
            IF ~IsValid(version) THEN [fatal |-> TRUE, args |-> <<>>]
            ELSE IF semverCompare(version, <<1, 14>>) < 0 THEN [fatal |-> FALSE, args |-> <<>>]
            ELSE [fatal |-> FALSE, args |-> <<"-mod=mod">>]
      [] m = ModVendor -> [fatal |-> FALSE, args |-> <<>>]

\* ModMode.argsForGoVersion: the -mod flag, fatal for ModMod on an invalid semver.
argsForGoVersion(m, version) ==
    CASE m = ModUnset -> [fatal |-> FALSE, args |-> <<>>]
      [] m = ModReadonly -> [fatal |-> FALSE, args |-> <<"-mod=readonly">>]
      [] m = ModMod ->
            IF ~IsValid(version) THEN [fatal |-> TRUE, args |-> <<>>]
            ELSE IF semverCompare(version, <<1, 14>>) < 0 THEN [fatal |-> FALSE, args |-> <<>>]
            ELSE [fatal |-> FALSE, args |-> <<"-mod=mod">>]
      [] m = ModVendor -> [fatal |-> FALSE, args |-> <<"-mod=vendor">>]

checkVendor_AnyFailure(outcome) == outcome = "ok"

\* checkVendor: `go list -mod=vendor ./...`; false only when the command fails
\* and its output reports inconsistent vendoring.
checkVendor(outcome) ==
    IF outcome # "ok" THEN ~(outcome = "inconsistent vendoring") ELSE TRUE

VendorOutcomes == {"ok", "inconsistent vendoring", "other error"}

getDepMode_DepFirst(goMod, gopkgToml, glideYaml) ==
    IF gopkgToml THEN Dep
    ELSE IF goMod THEN GoGetWithModules
    ELSE IF glideYaml THEN Glide
    ELSE GoGetNoModules

\* getDepMode: the first of go.mod, Gopkg.toml and glide.yaml that exists decides.
getDepMode(goMod, gopkgToml, glideYaml) ==
    IF goMod THEN GoGetWithModules
    ELSE IF gopkgToml THEN Dep
    ELSE IF glideYaml THEN Glide
    ELSE GoGetNoModules

\* tryReadGoDirective: `directive` is what the pattern ^go[ \t\r]+([0-9]+\.[0-9]+)$
\* matches in go.mod, <<>> when it matches nothing.
tryReadGoDirective(dm, readOK, directive) ==
    IF dm = GoGetWithModules /\ readOK /\ directive # <<>>
    THEN [version |-> directive, found |-> TRUE]
    ELSE [version |-> <<>>, found |-> FALSE]

getModMode_AnyProfile(dm, modulesTxtExists, vendorDirExists) ==
    IF modulesTxtExists THEN ModVendor
    ELSE IF vendorDirExists THEN ModMod
    ELSE ModUnset

\* getModMode: only a module project looks at the vendor directory.
getModMode(dm, modulesTxtExists, vendorDirExists) ==
    IF dm = GoGetWithModules
    THEN IF modulesTxtExists THEN ModVendor
         ELSE IF vendorDirExists THEN ModMod
         ELSE ModUnset
    ELSE ModUnset

fixGoVendorIssues_Readonly(mm, dm, versionFound, readOK, hasExplicit, addOK) ==
    IF mm = ModVendor /\ dm = GoGetWithModules /\ ~versionFound /\ readOK /\ ~hasExplicit
    THEN [modMode |-> IF addOK THEN mm ELSE ModReadonly, edited |-> TRUE]
    ELSE [modMode |-> mm, edited |-> FALSE]

\* fixGoVendorIssues: [modMode, edited], edited iff `go mod edit -go=1.13` ran.
fixGoVendorIssues(mm, dm, versionFound, readOK, hasExplicit, addOK) ==
    IF mm = ModVendor /\ dm = GoGetWithModules /\ ~versionFound /\ readOK /\ ~hasExplicit
    THEN [modMode |-> IF addOK THEN mm ELSE ModMod, edited |-> TRUE]
    ELSE [modMode |-> mm, edited |-> FALSE]

\* A repository URL, by the shape getImportPathFromRepoURL distinguishes.
RepoURLs ==
    { [kind |-> "unset", host |-> "", path |-> <<>>],
      [kind |-> "scp", host |-> "github.com", path |-> <<"o", "r">>],
      [kind |-> "url", host |-> "github.com", path |-> <<"o", "r">>],
      [kind |-> "url", host |-> "", path |-> <<"o", "r">>],
      [kind |-> "file", host |-> "", path |-> <<"o", "r">>],
      [kind |-> "malformed", host |-> "", path |-> <<>>] }

getImportPathFromRepoURL(u) ==
    CASE u.kind = "scp" -> [fatal |-> FALSE, importpath |-> <<u.host>> \o u.path]
      [] u.kind = "malformed" -> [fatal |-> TRUE, importpath |-> <<>>]
      [] u.kind = "file" -> [fatal |-> FALSE, importpath |-> <<>>]
      [] OTHER -> IF u.host = "" \/ u.path = <<>>
                  THEN [fatal |-> FALSE, importpath |-> <<>>]
                  ELSE [fatal |-> FALSE, importpath |-> <<u.host>> \o u.path]

getImportPath(lgtmIndexImportPath, repourl, githubrepo) ==
    IF lgtmIndexImportPath # <<>> THEN [fatal |-> FALSE, importpath |-> lgtmIndexImportPath]
    ELSE IF repourl.kind = "unset"
    THEN IF githubrepo = <<>> THEN [fatal |-> FALSE, importpath |-> <<>>]
         ELSE [fatal |-> FALSE, importpath |-> <<"github.com">> \o githubrepo]
    ELSE getImportPathFromRepoURL(repourl)

getNeedGopath_EmptyPathKept(dm, ip, needGopathOverride) ==
    LET inferred == (dm # GoGetWithModules)
        bad == needGopathOverride \notin {"", "true", "false"}
        overridden == IF needGopathOverride = "true" THEN TRUE
                      ELSE IF needGopathOverride = "false" THEN FALSE
                      ELSE inferred
    IN  [fatal |-> bad, needGopath |-> overridden]

getNeedGopath_OverrideTrueIgnored(dm, ip, needGopathOverride) ==
    LET inferred == (dm # GoGetWithModules)
        bad == needGopathOverride \notin {"", "true", "false"}
        overridden == IF needGopathOverride = "false" THEN FALSE ELSE inferred
    IN  [fatal |-> bad, needGopath |-> overridden /\ ip # <<>>]

getNeedGopath(dm, ip, needGopathOverride) ==
    LET inferred == (dm # GoGetWithModules)
        bad == needGopathOverride \notin {"", "true", "false"}
        overridden == IF needGopathOverride = "true" THEN TRUE
                      ELSE IF needGopathOverride = "false" THEN FALSE
                      ELSE inferred
    IN  [fatal |-> bad, needGopath |-> overridden /\ ip # <<>>]

inLGTM_SrcOnly(lgtmSrc, needGopathOverride) == lgtmSrc

\* line 674
inLGTM(lgtmSrc, needGopathOverride) == lgtmSrc \/ needGopathOverride # ""

buildWithoutCustomCommands_BuildOnly(buildSucceeded, depErrors) == ~buildSucceeded

\* buildWithoutCustomCommands: shouldInstallDependencies
buildWithoutCustomCommands(buildSucceeded, depErrors) ==
    IF ~buildSucceeded THEN TRUE
    ELSE IF depErrors THEN TRUE
    ELSE FALSE

runInstallDependencies_VendorIgnored(should, mm) == should

\* lines 708-714: installDependencies is called iff this holds; mm is modMode
\* at line 709, after the recheck of lines 698-706.
runInstallDependencies(should, mm) == should /\ mm # ModVendor

\* installDependencies, lines 602-607: GO111MODULE when the installer is run.
setGo111Module(dm, old) ==
    IF dm = Dep \/ dm = Glide THEN old
    ELSE IF dm = GoGetWithModules THEN "on"
    ELSE IF dm = GoGetNoModules THEN "off"
    ELSE old

installDependencies_AlwaysVendorOnly(dm, gopkgLockExists) ==
    IF dm = Dep THEN <<"dep", "ensure", "-v", "-vendor-only">>
    ELSE IF dm = Glide THEN <<"glide", "install">>
    ELSE <<"go", "get", "-v", "./...">>

\* installDependencies: the installer command.
installDependencies(dm, gopkgLockExists) ==
    IF dm = Dep
    THEN IF gopkgLockExists THEN <<"dep", "ensure", "-v", "-vendor-only">>
         ELSE <<"dep", "ensure", "-v">>
    ELSE IF dm = Glide THEN <<"glide", "install">>
    ELSE <<"go", "get", "-v", "./...">>

\* ------------------------------------------------------------- relocation
WorkspaceRootName == "root"

NoPaths == [scratch |-> "", realSrc |-> <<>>, root |-> <<>>, newdir |-> <<>>, files |-> {}]

MoveFailures ==
    {"none", "MkdirTemp", "Open", "Readdirnames", "Rename", "EvalSymlinks", "MkdirAll",
     "RenameScratch"}

moveToTemporaryGopath_NoSrcLevel(top, scratch, failAt, moved, realSrc, ip) ==
    LET files == top \cup {scratch}
        root == realSrc \o <<WorkspaceRootName>>
        newdir == root \o ip
    IN  CASE failAt = "MkdirTemp" ->
               [fatal |-> TRUE, srcTop |-> top, scratchTop |-> {}, info |-> NoPaths]
          [] failAt \in {"Open", "Readdirnames"} ->
               [fatal |-> TRUE, srcTop |-> files, scratchTop |-> {}, info |-> NoPaths]
          [] failAt = "Rename" ->
               [fatal |-> TRUE, srcTop |-> files \ moved, scratchTop |-> moved, info |-> NoPaths]
          [] failAt = "EvalSymlinks" ->
               [fatal |-> TRUE, srcTop |-> {scratch}, scratchTop |-> top, info |-> NoPaths]
          [] failAt \in {"MkdirAll", "RenameScratch"} ->
               [fatal |-> TRUE, srcTop |-> {scratch, WorkspaceRootName}, scratchTop |-> top,
                info |-> NoPaths]
          [] OTHER ->
               [fatal |-> FALSE, srcTop |-> {WorkspaceRootName}, scratchTop |-> top,
                info |-> [scratch |-> scratch, realSrc |-> realSrc, root |-> root,
                          newdir |-> newdir, files |-> files]]

moveToTemporaryGopath_RenameTolerated(top, scratch, failAt, moved, realSrc, ip) ==
    LET files == top \cup {scratch}
        root == realSrc \o <<WorkspaceRootName>>
        newdir == root \o <<"src">> \o ip
    IN  IF failAt \in {"MkdirTemp", "Open", "Readdirnames", "EvalSymlinks", "MkdirAll",
                       "RenameScratch"}
        THEN [fatal |-> TRUE, srcTop |-> top, scratchTop |-> {}, info |-> NoPaths]
        ELSE [fatal |-> FALSE,
              srcTop |-> (IF failAt = "Rename" THEN top \ moved ELSE {}) \cup {WorkspaceRootName},
              scratchTop |-> IF failAt = "Rename" THEN moved ELSE top,
              info |-> [scratch |-> scratch, realSrc |-> realSrc, root |-> root,
                        newdir |-> newdir, files |-> files]]

\* moveToTemporaryGopath on a source root whose top level holds `top`.
\*   scratch   the fresh name os.MkdirTemp picked
\*   failAt    the call that fails (log.Fatalf), "none" when all succeed
\*   moved     the entries already moved when a Rename of an entry fails
\*   realSrc   filepath.EvalSymlinks(srcdir)
\* files is what Readdirnames returns: every entry, the scratch directory
\* included; it is kept as a set, the order of the moves being immaterial.
moveToTemporaryGopath(top, scratch, failAt, moved, realSrc, ip) ==
    LET files == top \cup {scratch}
        root == realSrc \o <<WorkspaceRootName>>
        newdir == root \o <<"src">> \o ip
    IN  CASE failAt = "MkdirTemp" ->
               [fatal |-> TRUE, srcTop |-> top, scratchTop |-> {}, info |-> NoPaths]
          [] failAt \in {"Open", "Readdirnames"} ->
               [fatal |-> TRUE, srcTop |-> files, scratchTop |-> {}, info |-> NoPaths]
          [] failAt = "Rename" ->
               [fatal |-> TRUE, srcTop |-> files \ moved, scratchTop |-> moved, info |-> NoPaths]
          [] failAt = "EvalSymlinks" ->
               [fatal |-> TRUE, srcTop |-> {scratch}, scratchTop |-> top, info |-> NoPaths]
          [] failAt \in {"MkdirAll", "RenameScratch"} ->
               [fatal |-> TRUE, srcTop |-> {scratch, WorkspaceRootName}, scratchTop |-> top,
                info |-> NoPaths]
          [] OTHER ->
               [fatal |-> FALSE, srcTop |-> {WorkspaceRootName}, scratchTop |-> top,
                info |-> [scratch |-> scratch, realSrc |-> realSrc, root |-> root,
                          newdir |-> newdir, files |-> files]]

restoreRepoLayout_StopAtFailure(fromTop, dirEntries, scratchDirName, toTop, failing) ==
    LET tried == dirEntries \ {scratchDirName}
        ok == {e \in tried : e \in fromTop /\ e \notin toTop /\ e \notin failing}
    IN  IF tried \ ok = {}
        THEN [srcTop |-> toTop \cup ok, scratchTop |-> fromTop \ ok, failed |-> {}]
        ELSE [srcTop |-> toTop, scratchTop |-> fromTop, failed |-> tried \ ok]

restoreRepoLayout_ScratchOnly(fromTop, dirEntries, scratchDirName, toTop, failing) ==
    [srcTop |-> toTop, scratchTop |-> fromTop, failed |-> {}]

\* restoreRepoLayout: os.Rename(fromDir/e, toDir/e) for every recorded entry but
\* the scratch directory.  A rename fails when there is nothing to move, when
\* the name is taken in toDir (there it is the workspace directory, which is
\* not empty) or for a reason of the file system (`failing`); a failure is
\* logged and the loop goes on.
restoreRepoLayout(fromTop, dirEntries, scratchDirName, toTop, failing) ==
    LET tried == dirEntries \ {scratchDirName}
        ok == {e \in tried : e \in fromTop /\ e \notin toTop /\ e \notin failing}
    IN  [srcTop |-> toTop \cup ok, scratchTop |-> fromTop \ ok, failed |-> tried \ ok]

\* ------------------------------------------------------------------ state
VARIABLES
    args,                   \* os.Args[1:]
    pc,                     \* position of main()
    exitCode,               \* -1 while running, then the exit status
    trace,                  \* external effects so far: [op, arg]
    envLgtmSrc,             \* LGTM_SRC is set (non-empty)
    envNeedGopath,          \* LGTM_INDEX_NEED_GOPATH
    envPathTransformer,     \* SEMMLE_PATH_TRANSFORMER
    envGo111Module,         \* GO111MODULE, NotSet when it is not in the environment
    srcTop,                 \* names at the top level of the source root
    scratchTop,             \* names in the scratch directory (later newdir)
    ptFile,                 \* the path transformer file
    cwd,                    \* working directory
    envFile,                \* the environment file
    goVersion,              \* the cached banner of `go version`
    srcdir, depMode, goModVersion, goModVersionFound, modMode, importpath,
    needGopath, paths, inst, shouldInstallDependencies,
    defers,                 \* deferred calls of installDependenciesAndBuild
    origTop,                \* srcTop when moveToTemporaryGopath was called
    restoreFailed,          \* entries restoreRepoLayout failed to move back
    modModeSelected,        \* modMode after lines 666-667
    build,                  \* outcome of the default build and of the probe
    seen,                   \* which of the files that the function that has just
                            \* returned looks for exist; <<>> otherwise
    v,                      \* versionInfo of identifyEnvironment
    res                     \* what getVersionToInstall returned

envVars == <<envLgtmSrc, envNeedGopath, envPathTransformer, envGo111Module>>
fsVars == <<srcTop, scratchTop, ptFile, cwd, envFile>>
modeVars == <<depMode, goModVersion, goModVersionFound, modMode, modModeSelected>>
relocVars == <<importpath, needGopath, paths, defers, origTop, restoreFailed>>
buildVars == <<inst, shouldInstallDependencies, build>>
idVars == <<v, res>>
vars == <<args, pc, exitCode, trace, envVars, fsVars, goVersion, srcdir, modeVars,
          relocVars, buildVars, seen, idVars>>

Ev(op, arg) == [op |-> op, arg |-> arg]

NoBuild == [attempted |-> FALSE, succeeded |-> FALSE, probed |-> FALSE, depErrors |-> FALSE,
            probeArgs |-> <<>>]
NoFile == [exists |-> FALSE, lines |-> <<>>]

InitCommon ==
    /\ pc = "main"
    /\ exitCode = -1
    /\ trace = <<>>
    /\ envLgtmSrc \in BOOLEAN
    /\ envNeedGopath \in {"", "true", "false", "yes"}
    /\ envPathTransformer = "inherited"
    /\ envGo111Module \in Go111ModuleAtStart
    /\ srcTop \in SUBSET Names
    /\ scratchTop = {}
    /\ ptFile = NoFile
    /\ cwd = "start"
    /\ envFile = NoFile
    /\ goVersion = NoBanner
    /\ srcdir = <<>>
    /\ depMode = GoGetNoModules
    /\ goModVersion = <<>>
    /\ goModVersionFound = FALSE
    /\ modMode = ModUnset
    /\ modModeSelected = ModUnset
    /\ importpath = <<>>
    /\ needGopath = FALSE
    /\ paths = NoPaths
    /\ defers = <<>>
    /\ origTop = {}
    /\ restoreFailed = {}
    /\ inst = ""
    /\ shouldInstallDependencies = FALSE
    /\ build = NoBuild
    /\ seen = <<>>
    /\ v = NoVersionInfo
    /\ res = NoResult

\* Build mode is `go-autobuilder` without arguments; anything else but
\* --identify-environment prints the usage and exits with status 2.
\* An inherited GO111MODULE is tried in the plain environment, without the LGTM
\* variables, where the source root is not moved.
Init ==
    /\ InitCommon
    /\ args \in {<<>>, <<"--help">>}
    /\ envGo111Module # NotSet => (~envLgtmSrc /\ envNeedGopath = "" /\ srcTop = Names)

InBuild == args = <<>>

\* log.Fatalf
Fatal == pc' = "exited" /\ exitCode' = 1

\* ---------------------------------------------------------------- actions
\* main, lines 893-902
Main ==
    /\ pc = "main"
    /\ IF Len(args) = 0 THEN pc' = "getEnvGoVersion" /\ exitCode' = exitCode
       ELSE IF args = <<"--identify-environment">> THEN pc' = "getDepMode" /\ exitCode' = exitCode
       ELSE pc' = "exited" /\ exitCode' = 2
    /\ UNCHANGED <<args, seen, trace, envVars, fsVars, goVersion, srcdir, modeVars, relocVars,
                   buildVars, idVars>>

\* line 646: getEnvGoVersion runs `go version` (nothing is cached yet)
GetEnvGoVersion ==
    /\ pc = "getEnvGoVersion"
    /\ \E ok \in BOOLEAN, banner \in Banners :
          IF ~ok THEN Fatal /\ goVersion' = goVersion
          ELSE pc' = "getSourceDir" /\ exitCode' = exitCode /\ goVersion' = banner
    /\ UNCHANGED <<args, seen, trace, envVars, fsVars, srcdir, modeVars, relocVars, buildVars, idVars>>

\* lines 648-651: getSourceDir, then SEMMLE_PATH_TRANSFORMER is blanked
GetSourceDir ==
    /\ pc = "getSourceDir"
    /\ \E getwdOK \in BOOLEAN :
          IF ~envLgtmSrc /\ ~getwdOK
          THEN Fatal /\ UNCHANGED <<srcdir, envPathTransformer>>
          ELSE /\ pc' = "getDepMode" /\ exitCode' = exitCode
               /\ srcdir' = (IF envLgtmSrc THEN <<"lgtm_src">> ELSE <<"cwd">>)
               /\ envPathTransformer' = ""
    /\ UNCHANGED <<args, seen, trace, envLgtmSrc, envNeedGopath, envGo111Module, fsVars,
                   goVersion, modeVars,
                   relocVars, buildVars, idVars>>

\* lines 655-658 (getDepMode, then GO111MODULE is set to auto when it is not in
\* the environment) and line 879 (getDepMode alone)
GetDepMode ==
    /\ pc = "getDepMode"
    /\ \E goMod \in BOOLEAN, gopkgToml \in BOOLEAN, glideYaml \in BOOLEAN :
          /\ depMode' = getDepMode(goMod, gopkgToml, glideYaml)
          /\ seen' = <<goMod, gopkgToml, glideYaml>>
    /\ envGo111Module' = IF InBuild /\ envGo111Module = NotSet THEN "auto"
                         ELSE envGo111Module
    /\ pc' = "tryReadGoDirective"
    /\ UNCHANGED <<args, exitCode, trace, envLgtmSrc, envNeedGopath, envPathTransformer, fsVars, goVersion, srcdir, goModVersion,
                   goModVersionFound, modMode, modModeSelected, relocVars, buildVars, idVars>>

\* line 660 and line 880
TryReadGoDirective ==
    /\ pc = "tryReadGoDirective"
    /\ \E readOK \in BOOLEAN, directive \in DirectiveTexts \cup {<<>>} :
          LET r == tryReadGoDirective(depMode, readOK, directive)
          IN  /\ goModVersion' = r.version
              /\ goModVersionFound' = r.found
              /\ v' = IF InBuild THEN v
                      ELSE [v EXCEPT !.goModVersion = r.version, !.goModVersionFound = r.found]
    /\ seen' = <<>>
    /\ pc' = IF InBuild THEN "checkGoVersion" ELSE "isGoInstalled"
    /\ UNCHANGED <<args, exitCode, trace, envVars, fsVars, goVersion, srcdir, depMode, modMode,
                   modModeSelected, relocVars, buildVars, res>>

\* lines 662-664
CheckGoVersion ==
    /\ pc = "checkGoVersion"
    /\ LET sv == getEnvGoSemVer(goVersion)
       IN  IF sv.fatal THEN Fatal /\ trace' = trace
           ELSE /\ pc' = "getModMode" /\ exitCode' = exitCode
                /\ trace' = IF semverCompare(goModVersion, sv.semver) >= 0
                            THEN Append(trace, Ev("EmitNewerGoVersionNeeded", <<>>))
                            ELSE trace
    /\ UNCHANGED <<args, seen, envVars, fsVars, goVersion, srcdir, modeVars, relocVars, buildVars,
                   idVars>>

\* line 666; layout is <<vendor/modules.txt exists, vendor is a directory>>
GetModMode ==
    /\ pc = "getModMode"
    /\ \E layout \in {<<FALSE, FALSE>>, <<FALSE, TRUE>>, <<TRUE, TRUE>>} :
          /\ modMode' = getModMode(depMode, layout[1], layout[2])
          /\ seen' = layout
    /\ pc' = "fixGoVendorIssues"
    /\ UNCHANGED <<args, exitCode, trace, envVars, fsVars, goVersion, srcdir, depMode,
                   goModVersion, goModVersionFound, modModeSelected, relocVars, buildVars,
                   idVars>>

\* line 667
FixGoVendorIssues ==
    /\ pc = "fixGoVendorIssues"
    /\ \E readOK \in BOOLEAN, hasExplicit \in BOOLEAN, addOK \in BOOLEAN :
          LET r == fixGoVendorIssues(modMode, depMode, goModVersionFound, readOK, hasExplicit,
                                     addOK)
          IN  /\ modMode' = r.modMode
              /\ modModeSelected' = r.modMode
              /\ trace' = IF r.edited THEN Append(trace, Ev("go mod edit", <<"-go=1.13">>))
                          ELSE trace
    /\ seen' = <<>>
    /\ pc' = "tryUpdateGoModAndGoSum"
    /\ UNCHANGED <<args, exitCode, envVars, fsVars, goVersion, srcdir, depMode, goModVersion,
                   goModVersionFound, relocVars, buildVars, idVars>>

TryUpdateGoModAndGoSum_ModeReset ==
    /\ pc = "tryUpdateGoModAndGoSum"
    /\ LET tidy == /\ modMode # ModVendor
                   /\ depMode = GoGetWithModules
                   /\ semverCompare(getEnvGoSemVer(goVersion).semver, <<1, 16>>) >= 0
       IN  /\ trace' = IF tidy THEN Append(trace, Ev("go mod tidy", <<"-e">>)) ELSE trace
           /\ modMode' = IF tidy THEN ModUnset ELSE modMode
    /\ pc' = "getImportPath"
    /\ UNCHANGED <<args, seen, exitCode, envVars, fsVars, goVersion, srcdir, depMode,
                   goModVersion, goModVersionFound, modModeSelected, relocVars, buildVars,
                   idVars>>

\* line 669: `go mod tidy -e` for a module project, not vendored, on go >= 1.16
TryUpdateGoModAndGoSum ==
    /\ pc = "tryUpdateGoModAndGoSum"
    /\ trace' = IF /\ modMode # ModVendor
                   /\ depMode = GoGetWithModules
                   /\ semverCompare(getEnvGoSemVer(goVersion).semver, <<1, 16>>) >= 0
                THEN Append(trace, Ev("go mod tidy", <<"-e">>))
                ELSE trace
    /\ pc' = "getImportPath"
    /\ UNCHANGED <<args, seen, exitCode, envVars, fsVars, goVersion, srcdir, modeVars, relocVars,
                   buildVars, idVars>>

\* line 671
GetImportPath ==
    /\ pc = "getImportPath"
    /\ \E lgtmIndexImportPath \in {<<>>, <<"corp", "lib">>}, repourl \in RepoURLs,
          githubrepo \in {<<>>, <<"o", "r">>} :
          LET r == getImportPath(lgtmIndexImportPath, repourl, githubrepo)
          IN  IF r.fatal THEN Fatal /\ importpath' = importpath
              ELSE pc' = "getNeedGopath" /\ exitCode' = exitCode /\ importpath' = r.importpath
    /\ UNCHANGED <<args, seen, trace, envVars, fsVars, goVersion, srcdir, modeVars, needGopath, paths,
                   defers, origTop, restoreFailed, buildVars, idVars>>

\* lines 672-676
GetNeedGopath ==
    /\ pc = "getNeedGopath"
    /\ LET r == getNeedGopath(depMode, importpath, envNeedGopath)
       IN  IF r.fatal THEN Fatal /\ needGopath' = needGopath
           ELSE /\ needGopath' = r.needGopath
                /\ exitCode' = exitCode
                /\ pc' = IF inLGTM(envLgtmSrc, envNeedGopath) /\ r.needGopath
                         THEN "moveToTemporaryGopath" ELSE "build"
    /\ UNCHANGED <<args, seen, trace, envVars, fsVars, goVersion, srcdir, modeVars, importpath, paths,
                   defers, origTop, restoreFailed, buildVars, idVars>>

\* lines 677-680: moveToTemporaryGopath, then restoreRepoLayout is deferred
MoveToTemporaryGopath ==
    /\ pc = "moveToTemporaryGopath"
    /\ \E scratch \in ScratchNames \ srcTop, failAt \in MoveFailures, moved \in SUBSET srcTop,
          symlinked \in BOOLEAN :
          /\ failAt = "Rename" => moved # srcTop
          /\ failAt # "Rename" => moved = {}
          /\ LET realSrc == IF symlinked THEN <<"real">> \o srcdir ELSE srcdir
                 r == moveToTemporaryGopath(srcTop, scratch, failAt, moved, realSrc, importpath)
             IN  /\ srcTop' = r.srcTop
                 /\ scratchTop' = r.scratchTop
                 /\ paths' = r.info
                 /\ trace' = Append(trace, Ev("moveToTemporaryGopath", <<failAt>>))
                 /\ IF r.fatal THEN Fatal /\ defers' = defers
                    ELSE /\ pc' = "createPathTransformerFile" /\ exitCode' = exitCode
                         /\ defers' = Append(defers, "restoreRepoLayout")
    /\ origTop' = srcTop
    /\ UNCHANGED <<args, seen, envVars, ptFile, cwd, envFile, goVersion, srcdir, modeVars, importpath,
                   needGopath, restoreFailed, buildVars, idVars>>

\* lines 682-683: createPathTransformerFile, then os.Remove is deferred
CreatePathTransformerFile ==
    /\ pc = "createPathTransformerFile"
    /\ \E failAt \in {"none", "Chdir", "CreateTemp"} :
          /\ cwd' = IF failAt = "Chdir" THEN cwd ELSE "newdir"
          /\ IF failAt # "none" THEN Fatal /\ UNCHANGED <<ptFile, defers>>
             ELSE /\ pc' = "writePathTransformerFile" /\ exitCode' = exitCode
                  /\ ptFile' = [exists |-> TRUE, lines |-> <<>>]
                  /\ defers' = Append(defers, "os.Remove")
    /\ UNCHANGED <<args, seen, trace, envVars, srcTop, scratchTop, envFile, goVersion, srcdir,
                   modeVars, importpath, needGopath, paths, origTop, restoreFailed, buildVars,
                   idVars>>

\* line 685: the two lines are "#" + realSrc and newdir + "//"
WritePathTransformerFile ==
    /\ pc = "writePathTransformerFile"
    /\ \E failAt \in {"none", "WriteString", "Close", "Setenv"} :
          /\ ptFile' = IF failAt = "WriteString" THEN ptFile
                       ELSE [ptFile EXCEPT !.lines = <<<<"#">> \o paths.realSrc,
                                                      paths.newdir \o <<"//">>>>]
          /\ IF failAt # "none" THEN Fatal /\ envPathTransformer' = envPathTransformer
             ELSE /\ pc' = "setGopath" /\ exitCode' = exitCode
                  /\ envPathTransformer' = "path-transformer"
    /\ UNCHANGED <<args, seen, trace, envLgtmSrc, envNeedGopath, envGo111Module, srcTop,
                   scratchTop, cwd, envFile,
                   goVersion, srcdir, modeVars, relocVars, buildVars, idVars>>

\* line 686
SetGopath ==
    /\ pc = "setGopath"
    /\ \E ok \in BOOLEAN :
          IF ~ok THEN Fatal /\ trace' = trace
          ELSE /\ pc' = "build" /\ exitCode' = exitCode
               /\ trace' = Append(trace, Ev("setGopath", paths.root))
    /\ UNCHANGED <<args, seen, envVars, fsVars, goVersion, srcdir, modeVars, relocVars, buildVars,
                   idVars>>

\* lines 690-693: no custom command, buildWithoutCustomCommands
BuildWithoutCustomCommands ==
    /\ pc = "build"
    /\ inst' = ""
    /\ \E buildSucceeded \in BOOLEAN, depErrors \in BOOLEAN :
          LET flags == argsForGoVersion(modMode, getEnvGoSemVer(goVersion).semver)
              built == Append(trace, Ev("Autobuild", <<>>))
          IN  /\ ~buildSucceeded => ~depErrors
              /\ IF buildSucceeded /\ flags.fatal
                 THEN /\ Fatal
                      /\ trace' = built
                      /\ build' = [build EXCEPT !.attempted = TRUE, !.succeeded = TRUE]
                      /\ shouldInstallDependencies' = shouldInstallDependencies
                 ELSE /\ pc' = "checkVendor" /\ exitCode' = exitCode
                      /\ trace' = IF buildSucceeded
                                  THEN Append(built, Ev("DepErrors", <<"./...">> \o flags.args))
                                  ELSE built
                      /\ build' = [attempted |-> TRUE, succeeded |-> buildSucceeded,
                                   probed |-> buildSucceeded, depErrors |-> depErrors,
                                   probeArgs |-> IF buildSucceeded
                                                 THEN <<"./...">> \o flags.args ELSE <<>>]
                      /\ shouldInstallDependencies' =
                             buildWithoutCustomCommands(buildSucceeded, depErrors)
    /\ UNCHANGED <<args, seen, envVars, fsVars, goVersion, srcdir, modeVars, relocVars, idVars>>

BuildWithCustomCommands_AfterDefaultBuild ==
    /\ pc = "build"
    /\ inst' = "custom"
    /\ \E failAt \in {"none", "CreateTemp", "WriteString", "Close"}, scriptOK \in BOOLEAN :
          /\ failAt # "none" => scriptOK
          /\ IF failAt # "none" THEN Fatal /\ trace' = Append(trace, Ev("Autobuild", <<>>))
             ELSE /\ pc' = "checkVendor" /\ exitCode' = exitCode
                  /\ trace' = trace \o <<Ev("Autobuild", <<>>),
                                          Ev("custom script",
                                             <<IF scriptOK THEN "ok" ELSE "failed">>)>>
    /\ UNCHANGED <<args, seen, envVars, fsVars, goVersion, srcdir, modeVars, relocVars,
                   shouldInstallDependencies, build, idVars>>

BuildWithCustomCommands_AbortOnFailure ==
    /\ pc = "build"
    /\ inst' = "custom"
    /\ \E failAt \in {"none", "CreateTemp", "WriteString", "Close"}, scriptOK \in BOOLEAN :
          /\ failAt # "none" => scriptOK
          /\ trace' = IF failAt # "none" THEN trace
                      ELSE Append(trace, Ev("custom script",
                                            <<IF scriptOK THEN "ok" ELSE "failed">>))
          /\ IF failAt # "none" \/ ~scriptOK THEN Fatal
             ELSE pc' = "checkVendor" /\ exitCode' = exitCode
    /\ UNCHANGED <<args, seen, envVars, fsVars, goVersion, srcdir, modeVars, relocVars,
                   shouldInstallDependencies, build, idVars>>

\* lines 690-696: a custom command, buildWithCustomCommands; the result of the
\* script is not looked at
BuildWithCustomCommands ==
    /\ pc = "build"
    /\ inst' = "custom"
    /\ \E failAt \in {"none", "CreateTemp", "WriteString", "Close"}, scriptOK \in BOOLEAN :
          /\ failAt # "none" => scriptOK
          /\ IF failAt # "none" THEN Fatal /\ trace' = trace
             ELSE /\ pc' = "checkVendor" /\ exitCode' = exitCode
                  /\ trace' = Append(trace, Ev("custom script",
                                               <<IF scriptOK THEN "ok" ELSE "failed">>))
    /\ UNCHANGED <<args, seen, envVars, fsVars, goVersion, srcdir, modeVars, relocVars,
                   shouldInstallDependencies, build, idVars>>

CheckVendor_Skipped ==
    /\ pc = "checkVendor"
    /\ pc' = "install"
    /\ UNCHANGED <<args, seen, exitCode, trace, envVars, fsVars, goVersion, srcdir, modeVars,
                   relocVars, buildVars, idVars>>

\* lines 698-706: the recheck, for a mode that is ModVendor after the build
CheckVendor ==
    /\ pc = "checkVendor"
    /\ \E outcome \in VendorOutcomes :
          /\ modMode # ModVendor => outcome = "ok"
          /\ IF modMode = ModVendor
             THEN /\ trace' = Append(trace, Ev("checkVendor", <<outcome>>))
                  /\ modMode' = IF ~checkVendor(outcome) THEN ModMod ELSE modMode
             ELSE UNCHANGED <<trace, modMode>>
    /\ pc' = "install"
    /\ UNCHANGED <<args, seen, exitCode, envVars, fsVars, goVersion, srcdir, depMode, goModVersion,
                   goModVersionFound, modModeSelected, relocVars, buildVars, idVars>>

\* lines 708-714; installDependencies looks for Gopkg.lock in a dep project
InstallStep ==
    /\ pc = "install"
    /\ \E gopkgLockExists \in BOOLEAN :
          /\ ~(runInstallDependencies(shouldInstallDependencies, modMode) /\ depMode = Dep)
                => ~gopkgLockExists
          /\ trace' = IF runInstallDependencies(shouldInstallDependencies, modMode)
                      THEN Append(trace, Ev("installDependencies",
                                            installDependencies(depMode, gopkgLockExists)))
                      ELSE IF shouldInstallDependencies
                      THEN Append(trace, Ev("skip notice", <<>>))
                      ELSE trace
          /\ seen' = IF runInstallDependencies(shouldInstallDependencies, modMode)
                         /\ depMode = Dep
                      THEN <<gopkgLockExists>> ELSE <<>>
    /\ envGo111Module' = IF runInstallDependencies(shouldInstallDependencies, modMode)
                         THEN setGo111Module(depMode, envGo111Module)
                         ELSE envGo111Module
    /\ pc' = "extract"
    /\ UNCHANGED <<args, exitCode, envLgtmSrc, envNeedGopath, envPathTransformer, fsVars, goVersion, srcdir, modeVars, relocVars,
                   buildVars, idVars>>

\* line 716: extract; the extractor is run with extractorArgs and its exit
\* status is looked at
Extract ==
    /\ pc = "extract"
    /\ \E failAt \in {"none", "GetExtractorPath", "Getwd", "Run"} :
          LET flags == IF depMode = GoGetWithModules
                       THEN argsForGoVersion(modMode, getEnvGoSemVer(goVersion).semver)
                       ELSE [fatal |-> FALSE, args |-> <<>>]
              started == failAt \in {"none", "Run"} /\ ~flags.fatal
          IN  /\ flags.fatal => failAt \in {"none", "GetExtractorPath", "Getwd"}
              /\ trace' = IF started
                          THEN trace \o <<Ev("extractor", flags.args \o <<"./...">>),
                                          Ev("extractor exit",
                                             <<IF failAt = "Run" THEN "1" ELSE "0">>)>>
                          ELSE trace
              /\ IF failAt # "none" \/ flags.fatal THEN Fatal
                 ELSE pc' = "return" /\ exitCode' = exitCode
    /\ seen' = <<>>
    /\ UNCHANGED <<args, envVars, fsVars, goVersion, srcdir, modeVars, relocVars, buildVars,
                   idVars>>

\* installDependenciesAndBuild returns: the deferred os.Remove(pt.Name())
RemovePathTransformerFile ==
    /\ pc = "return"
    /\ defers # <<>>
    /\ defers[Len(defers)] = "os.Remove"
    /\ defers' = SubSeq(defers, 1, Len(defers) - 1)
    /\ ptFile' = NoFile
    /\ UNCHANGED <<args, seen, pc, exitCode, trace, envVars, srcTop, scratchTop, cwd, envFile,
                   goVersion, srcdir, modeVars, importpath, needGopath, paths, origTop,
                   restoreFailed, buildVars, idVars>>

\* installDependenciesAndBuild returns: the deferred restoreRepoLayout
RestoreRepoLayout ==
    /\ pc = "return"
    /\ defers # <<>>
    /\ defers[Len(defers)] = "restoreRepoLayout"
    /\ defers' = SubSeq(defers, 1, Len(defers) - 1)
    /\ \E failing \in SUBSET (paths.files \ {paths.scratch}) :
          LET r == restoreRepoLayout(scratchTop, paths.files, paths.scratch, srcTop, failing)
          IN  /\ srcTop' = r.srcTop
              /\ scratchTop' = r.scratchTop
              /\ restoreFailed' = r.failed
    /\ trace' = Append(trace, Ev("restoreRepoLayout", <<>>))
    /\ UNCHANGED <<args, seen, pc, exitCode, envVars, ptFile, cwd, envFile, goVersion, srcdir,
                   modeVars, importpath, needGopath, paths, origTop, buildVars, idVars>>

\* main returns: exit status 0
Exit ==
    /\ pc = "return"
    /\ defers = <<>>
    /\ pc' = "exited"
    /\ exitCode' = 0
    /\ UNCHANGED <<args, seen, trace, envVars, fsVars, goVersion, srcdir, modeVars, relocVars,
                   buildVars, idVars>>

IsGoInstalled_ToolchainRequired ==
    /\ pc = "isGoInstalled"
    /\ \E found \in BOOLEAN, ok \in BOOLEAN, banner \in Banners :
          /\ ~found => (ok /\ banner = [goPrefix |-> FALSE, text |-> Unparsable])
          /\ IF ~found \/ ~ok
             THEN Fatal /\ goVersion' = goVersion /\ v' = [v EXCEPT !.goEnvVersionFound = found]
             ELSE /\ pc' = "getVersionToInstall" /\ exitCode' = exitCode
                  /\ goVersion' = banner
                  /\ v' = [v EXCEPT !.goEnvVersionFound = TRUE,
                                    !.goEnvVersion = IF banner.goPrefix THEN banner.text
                                                     ELSE Unparsable]
    /\ UNCHANGED <<args, seen, trace, envVars, fsVars, srcdir, modeVars, relocVars, buildVars, res>>

\* lines 882-885: isGoInstalled, then getEnvGoVersion()[2:]
IsGoInstalled ==
    /\ pc = "isGoInstalled"
    /\ \E found \in BOOLEAN, ok \in BOOLEAN, banner \in Banners :
          /\ ~found => (ok /\ banner = [goPrefix |-> FALSE, text |-> Unparsable])
          /\ IF found /\ ~ok
             THEN Fatal /\ goVersion' = goVersion /\ v' = [v EXCEPT !.goEnvVersionFound = TRUE]
             ELSE /\ pc' = "getVersionToInstall" /\ exitCode' = exitCode
                  /\ goVersion' = IF found THEN banner ELSE goVersion
                  /\ v' = [v EXCEPT !.goEnvVersionFound = found,
                                    !.goEnvVersion =
                                        IF ~found THEN <<>>
                                        ELSE IF banner.goPrefix THEN banner.text
                                        ELSE Unparsable]
    /\ UNCHANGED <<args, seen, trace, envVars, fsVars, srcdir, modeVars, relocVars, buildVars, res>>

\* lines 887-888
GetVersionToInstall ==
    /\ pc = "getVersionToInstall"
    /\ res' = getVersionToInstall(v)
    /\ pc' = "writeEnvironmentFile"
    /\ UNCHANGED <<args, seen, exitCode, trace, envVars, fsVars, goVersion, srcdir, modeVars,
                   relocVars, buildVars, v>>

environmentFileInclude_Always(version) == <<version>>

\* writeEnvironmentFile: the include list of the file
environmentFileInclude(version) == IF version = <<>> THEN <<>> ELSE <<version>>

\* line 890, then main returns; a failure to create or write the file is
\* logged only
WriteEnvironmentFile ==
    /\ pc = "writeEnvironmentFile"
    /\ \E failAt \in {"none", "Create", "WriteString"} :
          envFile' = CASE failAt = "Create" -> envFile
                       [] failAt = "WriteString" -> [exists |-> TRUE, lines |-> <<>>]
                       [] OTHER -> [exists |-> TRUE,
                                    lines |-> <<environmentFileInclude(res.version)>>]
    /\ trace' = Append(trace, Ev("writeEnvironmentFile", <<>>))
    /\ pc' = "exited"
    /\ exitCode' = 0
    /\ UNCHANGED <<args, seen, envVars, srcTop, scratchTop, ptFile, cwd, goVersion, srcdir,
                   modeVars, relocVars, buildVars, idVars>>

\* ---------------------------------------------------------- specifications
Next ==
    \/ Main
    \/ GetEnvGoVersion
    \/ GetSourceDir
    \/ GetDepMode
    \/ TryReadGoDirective
    \/ CheckGoVersion
    \/ GetModMode
    \/ FixGoVendorIssues
    \/ TryUpdateGoModAndGoSum
    \/ GetImportPath
    \/ GetNeedGopath
    \/ MoveToTemporaryGopath
    \/ CreatePathTransformerFile
    \/ WritePathTransformerFile
    \/ SetGopath
    \/ BuildWithoutCustomCommands
    \/ BuildWithCustomCommands
    \/ CheckVendor
    \/ InstallStep
    \/ Extract
    \/ RemovePathTransformerFile
    \/ RestoreRepoLayout
    \/ Exit

\* go-autobuilder (build mode)
Spec == Init /\ [][Next]_vars

\* Requirement mode reads neither the source root nor the two variables.
InitEnv ==
    /\ InitCommon
    /\ args = <<"--identify-environment">>
    /\ envLgtmSrc = FALSE
    /\ envNeedGopath = ""
    /\ envGo111Module = NotSet
    /\ srcTop = Names

NextEnv ==
    \/ Main
    \/ GetDepMode
    \/ TryReadGoDirective
    \/ IsGoInstalled
    \/ GetVersionToInstall
    \/ WriteEnvironmentFile

\* go-autobuilder --identify-environment (requirement mode)
SpecEnv == InitEnv /\ [][NextEnv]_vars

InitAll == Init \/ InitEnv

NextAll ==
    \/ Next
    \/ IsGoInstalled
    \/ GetVersionToInstall
    \/ WriteEnvironmentFile

\* go-autobuilder in either mode
SpecAll == InitAll /\ [][NextAll]_vars

\* ------------------------------------------------ vocabulary of the claims
\* how often, and whether, an external effect happened so far
Count(op) == Cardinality({i \in 1..Len(trace) : trace[i].op = op})
Did(op) == \E i \in 1..Len(trace) : trace[i].op = op

\* a > b in major.minor.patch order, for two valid version texts
VersionGreater(a, b) ==
    LET x == Canon(a)
        y == Canon(b)
    IN  \/ x[1] > y[1]
        \/ x[1] = y[1] /\ x[2] > y[2]
        \/ x[1] = y[1] /\ x[2] = y[2] /\ x[3] > y[3]

\* inside [1.11, 1.20] at major.minor granularity
InRange(t) == IsValid(t) /\ Canon(t)[1] = 1 /\ Canon(t)[2] \in 11..20

\* getVersionToInstall has returned
Resolved == res # NoResult

DeclaredOutOfRange == v.goModVersionFound /\ ~InRange(v.goModVersion)
InstalledOutOfRange == v.goEnvVersionFound /\ ~InRange(v.goEnvVersion)

\* the run is at or past line 676 and has not ended
PastNeedGopath ==
    pc \in {"moveToTemporaryGopath", "createPathTransformerFile", "writePathTransformerFile",
            "setGopath", "build", "checkVendor", "install", "extract", "return"}

\* moveToTemporaryGopath is about to be called or has been called
Relocating == pc = "moveToTemporaryGopath" \/ Did("moveToTemporaryGopath")

\* the run is past lines 708-714
PastInstall == pc \in {"extract", "return"} \/ (pc = "exited" /\ build.attempted)

\* the -mod flag of a mode for the installed toolchain
ExpectedModFlags(m) ==
    IF m = ModVendor THEN <<"-mod=vendor">>
    ELSE IF m = ModMod /\ ~VersionGreater(<<1, 14>>, goVersion.text) THEN <<"-mod=mod">>
    ELSE <<>>

\* ----------------------------------------------------------------- claims
\* C1: once relocation has succeeded in a build-mode run, restoreRepoLayout
\* has been executed exactly once when the process has ended, on every path.
C1_UndoExactlyOnce ==
    (InBuild /\ pc = "exited" /\ paths # NoPaths) => Count("restoreRepoLayout") = 1

\* C2 (as stated): after restoreRepoLayout has run, the source root holds
\* exactly the names it held before moveToTemporaryGopath.
C2_RoundTrip == Did("restoreRepoLayout") => srcTop = origTop

\* C2 (amended): after restoreRepoLayout has run, the source root holds exactly
\* the original entries whose move back did not fail, and the workspace
\* directory "root" that relocation created; an original entry named "root" is
\* never moved back, and what was not moved back is still in the relocated
\* directory.
C2_RoundTripUpToRoot ==
    Did("restoreRepoLayout") =>
        /\ srcTop = (origTop \ restoreFailed) \cup {"root"}
        /\ restoreFailed \subseteq origTop
        /\ "root" \in origTop => "root" \in restoreFailed
        /\ scratchTop = restoreFailed

C2_Witness ==
    /\ Did("restoreRepoLayout")
    /\ "main.go" \in origTop
    /\ "main.go" \in srcTop
    /\ restoreFailed = {}

\* C3: in requirement mode, when both versions are found and inside the
\* supported range, a version is requested iff the declared version is
\* strictly greater than the installed one, and it is the declared version.
C3_RequestIffDeclaredGreater ==
    (/\ Resolved
     /\ v.goModVersionFound /\ InRange(v.goModVersion)
     /\ v.goEnvVersionFound /\ InRange(v.goEnvVersion)) =>
        /\ (res.version # <<>>) <=> VersionGreater(v.goModVersion, v.goEnvVersion)
        /\ res.version # <<>> => res.version = v.goModVersion

C3_Witness ==
    /\ Resolved
    /\ v.goModVersionFound /\ InRange(v.goModVersion)
    /\ v.goEnvVersionFound /\ InRange(v.goEnvVersion)
    /\ VersionGreater(v.goModVersion, v.goEnvVersion)
    /\ res.version = v.goModVersion
    /\ envFile.lines = <<<<v.goModVersion>>>>

\* C4: in requirement mode, when no found version is out of range: neither
\* version found requests 1.20, only the declared version found requests the
\* declared version, only the installed version found requests nothing.
C4_NotFoundRules ==
    (Resolved /\ ~DeclaredOutOfRange /\ ~InstalledOutOfRange) =>
        /\ (~v.goModVersionFound /\ ~v.goEnvVersionFound) => res.version = <<1, 20>>
        /\ (v.goModVersionFound /\ ~v.goEnvVersionFound) => res.version = v.goModVersion
        /\ (~v.goModVersionFound /\ v.goEnvVersionFound) => res.version = <<>>

C4_Witness ==
    /\ Resolved
    /\ ~v.goModVersionFound
    /\ v.goEnvVersionFound /\ InRange(v.goEnvVersion)
    /\ res.version = <<>>
    /\ pc = "exited"

\* C5: in requirement mode, a found version outside the supported range makes
\* getVersionToInstall request nothing and emit an unsupported-version
\* diagnostic, whatever the other version is.
C5_UnsupportedTakesPrecedence ==
    (Resolved /\ (DeclaredOutOfRange \/ InstalledOutOfRange)) =>
        /\ res.version = <<>>
        /\ res.diags = IF DeclaredOutOfRange THEN <<"EmitUnsupportedVersionGoMod">>
                       ELSE <<"EmitUnsupportedVersionEnvironment">>

C5_Witness ==
    /\ Resolved
    /\ v.goModVersionFound /\ InRange(v.goModVersion)
    /\ InstalledOutOfRange /\ IsValid(v.goEnvVersion)
    /\ VersionGreater(v.goModVersion, v.goEnvVersion)
    /\ res.version = <<>>

\* C6: outsideSupportedRange looks at major.minor only: a version with a patch
\* gets the answer of the same version with patch 0; 1.20.x is in range, 1.21.x
\* and 1.10.x are out of range.
C6_RangeIgnoresPatch ==
    (v.goEnvVersionFound /\ IsValid(v.goEnvVersion)) =>
        LET t == Canon(v.goEnvVersion)
        IN  /\ outsideSupportedRange(v.goEnvVersion) = outsideSupportedRange(<<t[1], t[2], 0>>)
            /\ (t[1] = 1 /\ t[2] = 20) => ~outsideSupportedRange(v.goEnvVersion)
            /\ (t[1] = 1 /\ t[2] \in {10, 21}) => outsideSupportedRange(v.goEnvVersion)
            /\ (Resolved /\ ~v.goModVersionFound) =>
                   ((res.msg = "unsupported-environment") <=> ~InRange(<<t[1], t[2]>>))

C6_Witness ==
    /\ Resolved
    /\ ~v.goModVersionFound
    /\ v.goEnvVersion = <<1, 20, 1>>
    /\ res.msg = "no-go-mod"

\* C7 (as stated): if installation is requested and the mode selected before
\* the build is Vendored, installDependencies is not executed and a skip notice
\* is logged.
C7_SelectedVendoredSkipsInstall ==
    (PastInstall /\ shouldInstallDependencies /\ modModeSelected = ModVendor) =>
        ~Did("installDependencies") /\ Did("skip notice")

\* C7 (amended): if installation is requested and the mode is still Vendored
\* after the vendor-consistency recheck, installDependencies is not executed and
\* a skip notice is logged; if the recheck changed the mode to AutoUpdate,
\* installDependencies is executed.
C7_VendoredAfterRecheckSkipsInstall ==
    (PastInstall /\ shouldInstallDependencies) =>
        /\ modMode = ModVendor => (~Did("installDependencies") /\ Did("skip notice"))
        /\ modMode # ModVendor => (Did("installDependencies") /\ ~Did("skip notice"))

C7_Witness ==
    /\ PastInstall
    /\ build.succeeded /\ build.depErrors
    /\ modMode = ModVendor
    /\ Did("skip notice")

\* C8: without a custom command, shouldInstallDependencies is true iff the
\* default build failed, or it succeeded and the probe on ./... with the flags
\* of the selected mode reports errors; installDependencies is executed only
\* when it is true.
C8_InstallRequestedIffBuildSignals ==
    /\ build.attempted =>
          /\ inst = ""
          /\ shouldInstallDependencies <=>
                 (~build.succeeded \/ (build.succeeded /\ build.probed /\ build.depErrors))
          /\ build.probed <=> Did("DepErrors")
          /\ build.probed =>
                 /\ build.succeeded
                 /\ build.probeArgs = <<"./...">> \o ExpectedModFlags(modModeSelected)
          /\ (build.succeeded /\ ~build.probed) => (pc = "exited" /\ exitCode = 1)
    /\ Did("installDependencies") => (build.attempted /\ shouldInstallDependencies)

C8_Witness ==
    /\ build.succeeded /\ build.probed /\ build.depErrors
    /\ shouldInstallDependencies
    /\ Did("installDependencies")

\* C9 (as stated): relocation is performed iff the profile is not ModuleBased,
\* the import path is not empty and the override does not disable it.
C9_RelocationIffNonModule ==
    PastNeedGopath =>
        (Relocating <=>
            (depMode # GoGetWithModules /\ importpath # <<>> /\ envNeedGopath # "false"))

\* C9 (amended): relocation is performed iff the import path is not empty and
\* either LGTM_INDEX_NEED_GOPATH is "true", or it is unset, LGTM_SRC is set and
\* the profile is not ModuleBased.
C9_RelocationIffInLGTM ==
    PastNeedGopath =>
        (Relocating <=>
            /\ importpath # <<>>
            /\ \/ envNeedGopath = "true"
               \/ envNeedGopath = "" /\ envLgtmSrc /\ depMode # GoGetWithModules)

C9_Witness ==
    /\ pc = "build"
    /\ paths # NoPaths
    /\ envNeedGopath = "" /\ envLgtmSrc
    /\ depMode = Dep

\* C10: LGTM_INDEX_NEED_GOPATH overrides the default both ways: "true" with an
\* import path gives needGopath even for a module project, "false" gives no
\* needGopath even for a non-module project with an import path, and any other
\* non-empty value ends the run fatally before relocation, build or extraction.
C10_OverridePrecedence ==
    /\ (PastNeedGopath /\ envNeedGopath = "true" /\ importpath # <<>>) =>
           needGopath /\ Relocating
    /\ (PastNeedGopath /\ envNeedGopath = "false") => ~needGopath /\ ~Relocating
    /\ (InBuild /\ envNeedGopath \notin {"", "true", "false"}) =>
           /\ ~PastNeedGopath
           /\ ~Did("moveToTemporaryGopath") /\ ~Did("Autobuild") /\ ~Did("custom script")
           /\ ~Did("extractor")
           /\ pc = "exited" => exitCode = 1

C10_Witness ==
    /\ PastNeedGopath
    /\ envNeedGopath = "true"
    /\ depMode = GoGetWithModules
    /\ needGopath
    /\ Did("moveToTemporaryGopath")

\* C11: when getDepMode has returned, the profile is ModuleBased if go.mod
\* exists, whatever else exists; otherwise DepBased if Gopkg.toml exists;
\* otherwise GlideBased if glide.yaml exists; otherwise LegacyGoGet.  The
\* profile is one of the four for every combination of files.
C11_ManifestPriority ==
    (pc = "tryReadGoDirective") =>
        /\ Len(seen) = 3
        /\ depMode \in {GoGetWithModules, Dep, Glide, GoGetNoModules}
        /\ seen[1] => depMode = GoGetWithModules
        /\ (~seen[1] /\ seen[2]) => depMode = Dep
        /\ (~seen[1] /\ ~seen[2] /\ seen[3]) => depMode = Glide
        /\ (~seen[1] /\ ~seen[2] /\ ~seen[3]) => depMode = GoGetNoModules

C11_Witness ==
    /\ InBuild
    /\ pc = "tryReadGoDirective"
    /\ seen = <<TRUE, TRUE, TRUE>>
    /\ depMode = GoGetWithModules

\* C12: when getModMode has returned, for a ModuleBased profile the mode is
\* Vendored iff vendor/modules.txt exists, AutoUpdate iff vendor is a directory
\* without vendor/modules.txt, and Unset otherwise; for every other profile the
\* mode is Unset whatever the vendor directory holds.  Vendored is selected only
\* when both the vendor directory and vendor/modules.txt exist.
C12_InitialModeSelection ==
    (pc = "fixGoVendorIssues") =>
        /\ Len(seen) = 2
        /\ depMode = GoGetWithModules =>
              /\ modMode = ModVendor <=> seen[1]
              /\ modMode = ModMod <=> (seen[2] /\ ~seen[1])
              /\ modMode = ModUnset <=> (~seen[2] /\ ~seen[1])
        /\ depMode # GoGetWithModules => modMode = ModUnset
        /\ modMode = ModVendor => (seen[1] /\ seen[2])

C12_Witness ==
    /\ pc = "fixGoVendorIssues"
    /\ depMode = GoGetWithModules
    /\ seen = <<TRUE, TRUE>>
    /\ modMode = ModVendor

\* C13: in a build-mode run, every step other than getModMode either leaves the
\* mode as it is or changes it from Vendored to AutoUpdate.  So the mode changes
\* at most once after getModMode, and Unset or AutoUpdate never becomes Vendored.
C13_ModeMonotone ==
    [][(InBuild /\ pc # "getModMode") =>
           \/ modMode' = modMode
           \/ modMode = ModVendor /\ modMode' = ModMod]_vars

C13_Witness ==
    /\ Did("checkVendor")
    /\ modModeSelected = ModVendor
    /\ modMode = ModMod

\* the steps of lines 689-714, as they show in the trace
PipelineOps ==
    {"Autobuild", "DepErrors", "custom script", "checkVendor", "installDependencies",
     "skip notice"}

\* C14: in a build-mode run the extractor is invoked at most once, and exactly
\* once when the run reaches the return of installDependenciesAndBuild; it is
\* invoked after the build or custom command, and no build, recheck or
\* installation follows it; its arguments are the flags of the mode as it is
\* after any downgrade (none for a non-module profile), followed by "./...";
\* if it exits non-zero the run has ended with status 1.
C14_ExtractorOnceLastWithFinalFlags ==
    InBuild =>
        /\ Count("extractor") <= 1
        /\ (pc = "return" \/ (pc = "exited" /\ exitCode = 0)) => Count("extractor") = 1
        /\ \A i \in 1..Len(trace) :
              trace[i].op = "extractor" =>
                  /\ trace[i].arg =
                         (IF depMode = GoGetWithModules THEN ExpectedModFlags(modMode)
                          ELSE <<>>) \o <<"./...">>
                  /\ \E j \in 1..(i - 1) : trace[j].op \in {"Autobuild", "custom script"}
                  /\ \A j \in (i + 1)..Len(trace) : trace[j].op \notin PipelineOps
                  /\ trace[i + 1] = Ev("extractor exit", <<"1">>) =>
                         (pc = "exited" /\ exitCode = 1)

C14_Witness ==
    /\ pc = "exited"
    /\ exitCode = 1
    /\ modModeSelected = ModVendor
    /\ \E i \in 1..Len(trace) : trace[i] = Ev("extractor", <<"-mod=mod", "./...">>)
    /\ \E i \in 1..Len(trace) : trace[i] = Ev("extractor exit", <<"1">>)

\* the custom script has been run and has failed
ScriptFailed == \E i \in 1..Len(trace) : trace[i] = Ev("custom script", <<"failed">>)

\* C15: when a custom installation command is supplied, installDependencies is
\* never executed in that run, the custom script is executed at most once and
\* exactly once when the run gets past buildWithCustomCommands, and the step
\* that runs the script goes on to the vendor recheck whether or not the script
\* failed.
C15_CustomCommandBypassesInstall ==
    /\ [](inst = "custom" =>
             /\ ~Did("installDependencies")
             /\ Count("custom script") <= 1
             /\ (pc \in {"checkVendor", "install", "extract", "return"}
                    \/ (pc = "exited" /\ exitCode = 0)) => Count("custom script") = 1)
    /\ [][(pc = "build" /\ Did("custom script")') => pc' = "checkVendor"]_vars

C15_Witness ==
    /\ inst = "custom"
    /\ ScriptFailed
    /\ pc = "exited"
    /\ exitCode = 0

\* the commands installDependencies has run so far
InstallerCommands ==
    {trace[i].arg : i \in {j \in 1..Len(trace) : trace[j].op = "installDependencies"}}

\* C16: an execution of installDependencies runs one command.  For DepBased it
\* is `dep ensure -v -vendor-only` iff Gopkg.lock exists and `dep ensure -v`
\* otherwise; for GlideBased it is `glide install`; for ModuleBased and
\* LegacyGoGet it is `go get -v ./...`, with GO111MODULE set to "on" and to
\* "off" respectively.
C16_InstallerByProfile ==
    /\ Count("installDependencies") <= 1
    /\ Did("installDependencies") =>
          /\ depMode = Dep =>
                /\ InstallerCommands \subseteq {<<"dep", "ensure", "-v", "-vendor-only">>,
                                                <<"dep", "ensure", "-v">>}
                /\ pc = "extract" =>
                      /\ Len(seen) = 1
                      /\ seen[1] <=>
                            InstallerCommands = {<<"dep", "ensure", "-v", "-vendor-only">>}
          /\ depMode = Glide => InstallerCommands = {<<"glide", "install">>}
          /\ depMode = GoGetWithModules =>
                (InstallerCommands = {<<"go", "get", "-v", "./...">>} /\ envGo111Module = "on")
          /\ depMode = GoGetNoModules =>
                (InstallerCommands = {<<"go", "get", "-v", "./...">>} /\ envGo111Module = "off")

C16_Witness ==
    /\ pc = "extract"
    /\ depMode = Dep
    /\ seen = <<TRUE>>
    /\ InstallerCommands = {<<"dep", "ensure", "-v", "-vendor-only">>}

\* the rationale and the diagnostic of the case the four inputs fall in
ExpectedRationale ==
    IF DeclaredOutOfRange
    THEN [msg |-> "unsupported-go-mod", diag |-> "EmitUnsupportedVersionGoMod"]
    ELSE IF InstalledOutOfRange
    THEN [msg |-> "unsupported-environment", diag |-> "EmitUnsupportedVersionEnvironment"]
    ELSE IF ~v.goEnvVersionFound /\ ~v.goModVersionFound
    THEN [msg |-> "no-go-mod-and-no-go-env", diag |-> "EmitNoGoModAndNoGoEnv"]
    ELSE IF ~v.goEnvVersionFound
    THEN [msg |-> "no-go-env", diag |-> "EmitNoGoEnv"]
    ELSE IF ~v.goModVersionFound
    THEN [msg |-> "no-go-mod", diag |-> "EmitNoGoMod"]
    ELSE IF VersionGreater(v.goModVersion, v.goEnvVersion)
    THEN [msg |-> "go-mod-higher-than-environment",
          diag |-> "EmitVersionGoModHigherVersionEnvironment"]
    ELSE [msg |-> "go-mod-not-higher-than-environment",
          diag |-> "EmitVersionGoModNotHigherVersionEnvironment"]

\* C17: whatever the declared and installed versions and whether they were
\* found, getVersionToInstall returns a non-empty message and emits exactly one
\* diagnostic, that of the case which decided the returned version.
C17_OneRationaleOneDiagnostic ==
    Resolved =>
        /\ res.msg # ""
        /\ Len(res.diags) = 1
        /\ res.msg = ExpectedRationale.msg
        /\ res.diags[1] = ExpectedRationale.diag

C17_Witness ==
    /\ Resolved
    /\ v.goModVersionFound /\ ~InRange(v.goModVersion)
    /\ v.goEnvVersionFound /\ ~InRange(v.goEnvVersion)
    /\ res.diags = <<"EmitUnsupportedVersionGoMod">>

\* some event named in `first` happens before some event named in `then`
Precedes(first, then) ==
    \E i \in 1..Len(trace) :
        /\ trace[i].op \in first
        /\ \E j \in (i + 1)..Len(trace) : trace[j].op \in then

\* C18 (as stated): the vendor-consistency recheck is performed after the
\* dependency-installation step has run or has been skipped.
C18_RecheckAfterInstall ==
    ~Precedes({"checkVendor"}, {"installDependencies", "skip notice"})

\* C18 (amended): the order is build or custom command, then the vendor
\* recheck, then the installation step, then extraction.  The recheck never
\* follows an installation, a skip notice or the extractor, and never precedes
\* the build; when the mode is Vendored after the build the recheck has been
\* performed before installation is run or skipped and before the extractor is
\* invoked.
C18_RecheckBetweenBuildAndInstall ==
    /\ ~Precedes({"installDependencies", "skip notice", "extractor"}, {"checkVendor"})
    /\ ~Precedes({"checkVendor"}, {"Autobuild", "DepErrors", "custom script"})
    /\ Did("checkVendor") => (Did("Autobuild") \/ Did("custom script"))
    /\ (modModeSelected = ModVendor
          /\ (Did("installDependencies") \/ Did("skip notice") \/ Did("extractor")))
         => Did("checkVendor")

C18_Witness ==
    /\ Precedes({"Autobuild"}, {"checkVendor"})
    /\ Precedes({"checkVendor"}, {"installDependencies"})
    /\ Precedes({"installDependencies"}, {"extractor"})

\* C19 (as stated): after getModMode, only the post-build vendor recheck
\* changes the mode; the vendor-issue fix-up before the build, the lock-file
\* update, relocation, the build or custom command, installation and
\* extraction leave it unchanged.
C19_OnlyRecheckChangesMode ==
    [][(InBuild /\ pc \notin {"getModMode", "checkVendor"}) => modMode' = modMode]_vars

\* C19 (amended): after getModMode, the mode is changed only by the vendor-issue
\* fix-up before the build (fixGoVendorIssues) and by the post-build vendor
\* recheck; the lock-file update, relocation, the build or custom command,
\* installation and extraction leave it unchanged.
C19_OnlyFixupAndRecheckChangeMode ==
    [][(InBuild /\ pc \notin {"getModMode", "fixGoVendorIssues", "checkVendor"})
           => modMode' = modMode]_vars

C19_Witness ==
    /\ pc = "tryUpdateGoModAndGoSum"
    /\ Did("go mod edit")
    /\ modMode = ModMod

\* the run is past lines 698-706 and has not ended fatally
PastRecheck == pc \in {"install", "extract", "return"} \/ (pc = "exited" /\ exitCode = 0)

\* C20 (as stated): when a custom installation command is supplied, the default
\* build attempt and the vendor-consistency recheck both run in that run.
C20_DefaultBuildAndRecheckAroundCustom ==
    (inst = "custom" /\ InBuild /\ PastRecheck) => (Did("Autobuild") /\ Did("checkVendor"))

\* C20 (amended): when a custom installation command is supplied, the default
\* build is not attempted and its dependency probe is not run; the custom
\* script takes their place.  The vendor-consistency recheck still runs after
\* the script, whether or not the script failed, exactly when the mode is
\* Vendored.
C20_CustomReplacesDefaultBuild ==
    (inst = "custom" /\ InBuild) =>
        /\ ~Did("Autobuild") /\ ~Did("DepErrors")
        /\ ~Precedes({"checkVendor"}, {"custom script"})
        /\ Did("checkVendor") => (Did("custom script") /\ modModeSelected = ModVendor)
        /\ (PastRecheck /\ modModeSelected = ModVendor) => Did("checkVendor")

C20_Witness ==
    /\ inst = "custom"
    /\ ScriptFailed
    /\ Precedes({"custom script"}, {"checkVendor"})
    /\ Precedes({"checkVendor"}, {"extractor"})

\* the outcomes of the vendor rechecks run so far
RecheckOutcomes ==
    {trace[i].arg : i \in {j \in 1..Len(trace) : trace[j].op = "checkVendor"}}

\* C21: checkVendor is executed iff the mode is Vendored when lines 698-706 are
\* reached, after the default build as well as after a custom command and
\* whether or not installation was requested; if it reports inconsistent
\* vendoring the mode becomes AutoUpdate, and if the command succeeds or fails
\* for another reason the mode stays Vendored.
C21_RecheckIffVendored ==
    InBuild =>
        /\ Count("checkVendor") <= 1
        /\ Did("checkVendor") => modModeSelected = ModVendor
        /\ (PastRecheck /\ modModeSelected = ModVendor) => Did("checkVendor")
        /\ RecheckOutcomes = {<<"inconsistent vendoring">>} => modMode = ModMod
        /\ (RecheckOutcomes # {} /\ RecheckOutcomes \subseteq {<<"ok">>, <<"other error">>})
              => modMode = ModVendor

C21_Witness ==
    /\ inst = "custom"
    /\ ~shouldInstallDependencies
    /\ RecheckOutcomes = {<<"other error">>}
    /\ modMode = ModVendor
    /\ pc = "install"

\* C22: in build mode the "newer Go version needed" diagnostic is emitted only
\* when a go directive was found in go.mod and its version is strictly newer
\* than the installed version.
C22_NewerDiagnosticOnlyWhenStrictlyNewer ==
    (InBuild /\ Did("EmitNewerGoVersionNeeded")) =>
        /\ goModVersionFound
        /\ IsValid(goVersion.text)
        /\ VersionGreater(goModVersion, goVersion.text)

\* moveToTemporaryGopath was called and one of its steps failed
RelocationFailed ==
    \E i \in 1..Len(trace) :
        trace[i].op = "moveToTemporaryGopath" /\ trace[i].arg # <<"none">>

\* C23: if a step of moveToTemporaryGopath fails, the run has ended with status
\* 1 at that step: no build, custom command, installation or extraction was
\* performed, restoreRepoLayout was neither scheduled nor run, and the entries
\* already moved are still in the scratch directory.
C23_RelocationFailureIsFatal ==
    RelocationFailed =>
        /\ pc = "exited" /\ exitCode = 1
        /\ trace[Len(trace)].op = "moveToTemporaryGopath"
        /\ ~Did("Autobuild") /\ ~Did("custom script") /\ ~Did("installDependencies")
        /\ ~Did("extractor")
        /\ ~Did("restoreRepoLayout") /\ defers = <<>>
        /\ origTop \ srcTop \subseteq scratchTop
        /\ scratchTop \subseteq origTop

C23_Witness ==
    /\ \E i \in 1..Len(trace) : trace[i] = Ev("moveToTemporaryGopath", <<"Rename">>)
    /\ scratchTop # {}
    /\ srcTop \cap origTop # {}
    /\ pc = "exited"

\* C24: when restoreRepoLayout has run, every recorded entry whose move back
\* did not fail is in the source root again, whatever failed for the others;
\* the run has not been aborted (it returns and exits with status 0); and the
\* scratch directory's name, which is in the recorded list, was not moved.
C24_UndoGoesOnAfterFailure ==
    Did("restoreRepoLayout") =>
        /\ (origTop \ restoreFailed) \subseteq srcTop
        /\ pc \in {"return", "exited"}
        /\ pc = "exited" => exitCode = 0
        /\ paths.scratch \in paths.files
        /\ paths.scratch \notin srcTop
        /\ paths.scratch \notin restoreFailed

C24_Witness ==
    /\ Did("restoreRepoLayout")
    /\ restoreFailed = {"root"}
    /\ "main.go" \in origTop
    /\ "main.go" \in srcTop
    /\ pc = "exited"
    /\ exitCode = 0

\* C25: when LGTM_INDEX_NEED_GOPATH is "true" and the import path is empty, no
\* relocation is performed (nothing is moved, the working directory and
\* SEMMLE_PATH_TRANSFORMER are not changed to a relocated tree), and
\* getNeedGopath does not abort the run: the next step is the build, in the
\* original source root.
C25_OverrideTrueWithoutImportPath ==
    /\ [](( InBuild /\ envNeedGopath = "true" /\ importpath = <<>>) =>
             /\ ~needGopath /\ ~Relocating
             /\ paths = NoPaths /\ scratchTop = {} /\ defers = <<>>
             /\ cwd = "start"
             /\ envPathTransformer # "path-transformer")
    /\ [][(pc = "getNeedGopath" /\ envNeedGopath = "true" /\ importpath = <<>>)
             => pc' = "build"]_vars

C25_Witness ==
    /\ envNeedGopath = "true"
    /\ importpath = <<>>
    /\ depMode = Dep
    /\ Did("Autobuild") /\ Did("extractor")
    /\ pc = "exited" /\ exitCode = 0

\* requirement mode
InIdentify == args = <<"--identify-environment">>

\* C26: in build mode, as long as `go version` has not been run with success the
\* run is not past getEnvGoVersion, and if it has ended it has ended with
\* status 1 without manifest inspection, relocation, build or extraction.  In
\* requirement mode, when no toolchain is on the path the installed version is
\* recorded as not found, the run does not end fatally, getVersionToInstall
\* still returns a decision and writeEnvironmentFile is still called.
C26_ToolchainUnavailable ==
    /\ (InBuild /\ goVersion = NoBanner) =>
          /\ pc \in {"main", "getEnvGoVersion", "exited"}
          /\ pc = "exited" => exitCode = 1
          /\ trace = <<>> /\ seen = <<>> /\ srcdir = <<>>
          /\ paths = NoPaths /\ build = NoBuild
    /\ (InIdentify /\ pc \in {"getVersionToInstall", "writeEnvironmentFile", "exited"}
          /\ ~v.goEnvVersionFound) =>
          /\ v.goEnvVersion = <<>>
          /\ exitCode # 1
          /\ pc # "getVersionToInstall" => (Resolved /\ res.msg # "")
          /\ pc = "exited" => (exitCode = 0 /\ Did("writeEnvironmentFile"))

C26_Witness ==
    /\ InIdentify
    /\ pc = "exited" /\ exitCode = 0
    /\ ~v.goEnvVersionFound
    /\ res.msg = "no-go-env"
    /\ Did("writeEnvironmentFile")

\* C27: when relocation has been performed, the relocated directory is
\* <realSrc>/root/src/<importpath>, realSrc being the source root with its
\* symbolic links resolved; from setGopath to extraction the path transformer
\* file holds exactly the two lines "#" + realSrc and newdir + "//" and
\* SEMMLE_PATH_TRANSFORMER names that file.  In a run without relocation the
\* variable is empty from line 651 on.
C27_RelocatedDirAndPathTransformer ==
    InBuild =>
        /\ paths # NoPaths =>
              /\ paths.realSrc \in {srcdir, <<"real">> \o srcdir}
              /\ paths.newdir = paths.realSrc \o <<"root", "src">> \o importpath
        /\ (paths # NoPaths /\ pc \in {"setGopath", "build", "checkVendor", "install", "extract"})
              => /\ envPathTransformer = "path-transformer"
                 /\ ptFile = [exists |-> TRUE,
                              lines |-> <<<<"#">> \o paths.realSrc, paths.newdir \o <<"//">>>>]
        /\ envPathTransformer = "path-transformer" => paths # NoPaths
        /\ (paths = NoPaths /\ srcdir # <<>>) => envPathTransformer = ""

C27_Witness ==
    /\ pc = "extract"
    /\ paths # NoPaths
    /\ envPathTransformer = "path-transformer"
    /\ ptFile.lines = << <<"#", "real", "lgtm_src">>,
                         <<"real", "lgtm_src", "root", "src", "github.com", "o", "r", "//">> >>

\* the arguments given so far to the extractor and to the dependency-error probe
ToolArguments ==
    {trace[i].arg : i \in {j \in 1..Len(trace) : trace[j].op \in {"extractor", "DepErrors"}}}

HasArgument(a, f) == \E k \in 1..Len(a) : a[k] = f

\* C28: at every point of a build-mode run the mode differs from Unset only for
\* a ModuleBased profile and is never ReadOnly; the extractor and the
\* dependency-error probe get a -mod flag only for a ModuleBased profile, never
\* -mod=readonly, and -mod=mod only when the installed toolchain is at least
\* 1.14.
C28_ModeOnlyForModules ==
    InBuild =>
        /\ modMode # ModUnset => depMode = GoGetWithModules
        /\ modMode # ModReadonly
        /\ \A a \in ToolArguments :
              /\ ~HasArgument(a, "-mod=readonly")
              /\ (HasArgument(a, "-mod=vendor") \/ HasArgument(a, "-mod=mod"))
                    => depMode = GoGetWithModules
              /\ HasArgument(a, "-mod=mod") =>
                    (IsValid(goVersion.text) /\ ~VersionGreater(<<1, 14>>, goVersion.text))
              /\ \A k \in 1..Len(a) : a[k] \in {"./...", "-mod=vendor", "-mod=mod"}

C28_Witness ==
    /\ depMode = GoGetWithModules
    /\ modMode = ModMod
    /\ goVersion.text = <<1, 10>>
    /\ ToolArguments = {<<"./...">>}
    /\ Did("extractor") /\ Did("DepErrors")

\* C29: in requirement mode the version getVersionToInstall returns, which is
\* passed to writeEnvironmentFile, is empty, or the declared version of a found
\* go directive, or the maximum supported version, and when it is not empty it
\* lies in [1.11, 1.20] at major.minor granularity.  The content written to the
\* environment file is an include list that is empty iff that version is empty
\* and holds exactly one entry, naming that version, otherwise.
C29_RequestedVersionAndEnvironmentFile ==
    InIdentify =>
        /\ Resolved =>
              /\ \/ res.version = <<>>
                 \/ v.goModVersionFound /\ res.version = v.goModVersion
                 \/ res.version = maxGoVersion
              /\ res.version # <<>> => InRange(res.version)
        /\ (pc = "exited" /\ envFile.lines # <<>>) =>
              /\ envFile.exists
              /\ Len(envFile.lines) = 1
              /\ envFile.lines[1] = <<>> <=> res.version = <<>>
              /\ res.version # <<>> => envFile.lines[1] = <<res.version>>

C29_Witness ==
    /\ pc = "exited"
    /\ res.msg = "go-mod-higher-than-environment"
    /\ v.goModVersion = <<1, 20>>
    /\ envFile.lines = << << <<1, 20>> >> >>
====
